---- MODULE Spec2Model ----
(***************************************************************************)
(* Model of the three Ansible modules of the keepass collection:           *)
(*   plugins/modules/secret_reader.py   secret_to_dic                      *)
(*   plugins/modules/group_reader.py    group_to_dic                       *)
(*   plugins/modules/secret_writer.py   secret_write                       *)
(*                                                                         *)
(* A path string is a sequence of one-character strings; a path segment    *)
(* and an entry or group name are such sequences too.  The KeePass         *)
(* database is a tree: groups is the sequence of non-root groups (the id   *)
(* of a group is its index, the root group has id 0), entries is the       *)
(* sequence of entries in document order.  Every module run opens the      *)
(* database file, works on the tree in memory and writes the file back     *)
(* only where the code calls db.save; the variable store is the file.      *)
(***************************************************************************)
EXTENDS Integers, Sequences, FiniteSets, TLC

VARIABLES store, log

vars == <<store, log>>

\* ------------------------------------------------------------------ bounds
\* Number of module runs in one behaviour.
MaxOps == 2

\* ------------------------------------------------------- Python values
\* None, for the string-valued fields and for the path argument.
None == "None"
NonePath == <<None>>

\* str.isspace(): non-empty and every character is whitespace.
isspace(s) == s # <<>> /\ \A i \in 1..Len(s) : s[i] = " "

\* str.split("/")
RECURSIVE split(_)
split(s) ==
    IF s = <<>> THEN << <<>> >>
    ELSE LET rest == split(Tail(s)) IN
         IF Head(s) = "/" THEN << <<>> >> \o rest
         ELSE << <<Head(s)>> \o Head(rest) >> \o Tail(rest)

\* [e for e in path if e]
filter_empty(path) == SelectSeq(path, LAMBDA e : e # <<>>)

\* "if x:" on an optional string
truthy(v) == v # None /\ v # ""

\* str() of the integers used as custom property values
Digits == <<"0", "1", "2", "3", "4", "5", "6", "7", "8", "9">>
str(v) == Digits[v + 1]

\* the test without its isspace() part
path_is_blank_no_isspace(raw) == raw = NonePath \/ raw = <<>>

\* the test all three functions start with
path_is_blank(raw) == raw = NonePath \/ raw = <<>> \/ isspace(raw)

\* d[k] = v on a mapping kept as a set of <<key, value>> pairs
dict_set(d, k, v) == {x \in d : x[1] # k} \cup {<<k, v>>}

\* ------------------------------------------------------- the database
NoGroup == -1
NoEntry == 0
RootGroup == 0

\* Group.path: the names from the root group down to the group
RECURSIVE group_path(_, _)
group_path(db, g) ==
    IF g = RootGroup THEN <<>>
    ELSE group_path(db, db.groups[g].parent) \o <<db.groups[g].name>>

\* Entry.path
entry_path(db, i) == group_path(db, db.entries[i].group) \o <<db.entries[i].title>>

\* db.find_groups(path=..., first=True): the first group at exactly this path
find_groups(db, path) ==
    IF path = <<>> THEN RootGroup
    ELSE LET hits == {g \in 1..Len(db.groups) : group_path(db, g) = path} IN
         IF hits = {} THEN NoGroup
         ELSE CHOOSE g \in hits : \A h \in hits : g <= h

\* db.find_entries_by_path(path=...): the first entry at exactly this path
\* (no group has an empty name, so a path with an empty item matches nothing)
find_entries_by_path(db, path) ==
    IF path = <<>> THEN NoEntry
    ELSE LET hits == {i \in 1..Len(db.entries) : entry_path(db, i) = path} IN
         IF hits = {} THEN NoEntry
         ELSE CHOOSE i \in hits : \A j \in hits : i <= j

\* the entries of a group and of every group below it, in document order
group_entries_recursive(db, g) ==
    SelectSeq([i \in 1..Len(db.entries) |-> i],
              LAMBDA i : LET p == group_path(db, db.entries[i].group)
                             q == group_path(db, g)
                         IN Len(p) >= Len(q) /\ SubSeq(p, 1, Len(q)) = q)

\* group.entries: the direct entries of a group, in document order
group_entries(db, g) ==
    SelectSeq([i \in 1..Len(db.entries) |-> i], LAMBDA i : db.entries[i].group = g)

\* db.add_group(destination_group, group_name)
add_group(db, parent, name) ==
    [db EXCEPT !.groups = Append(@, [name |-> name, parent |-> parent])]

\* db.delete_entry(entry)
delete_entry(db, i) ==
    [db EXCEPT !.entries = SubSeq(@, 1, i - 1) \o SubSeq(@, i + 1, Len(@))]

\* add_entry raises when the destination group has an entry with the same
\* title and username, unless force_creation is set (the callers here always
\* pass a username, see FieldInputs)
entry_exists_in(db, group, title, username) ==
    \E i \in 1..Len(db.entries) :
        /\ db.entries[i].group = group
        /\ db.entries[i].title = title
        /\ db.entries[i].username = username

\* the loop "for k in custom_properties: entry.set_custom_property(str(k), str(v))"
RECURSIVE set_custom_properties(_, _)
set_custom_properties(props, items) ==
    IF items = <<>> THEN props
    ELSE set_custom_properties(dict_set(props, Head(items)[1], str(Head(items)[2])),
                               Tail(items))

\* the entry add_entry builds, with the custom properties the caller then sets;
\* with_props is the caller's condition on custom_properties
new_entry(group, title, fields, with_props) ==
    [title |-> title, group |-> group,
     username |-> fields.username, password |-> fields.password,
     url |-> fields.url,
     props |-> IF with_props THEN set_custom_properties({}, fields.custom.items)
               ELSE {}]

\* ------------------------------------------------- the three functions
\* the mapping built for one entry: username and password only when they are
\* truthy, then one key per custom property (a later key replaces an earlier one)
RECURSIVE set_keys(_, _)
set_keys(d, pairs) ==
    IF pairs = {} THEN d
    ELSE LET x == CHOOSE y \in pairs : TRUE IN
         set_keys(dict_set(d, x[1], x[2]), pairs \ {x})

entry_fields(e) ==
    LET d1 == IF truthy(e.username) THEN {<<"username", e.username>>} ELSE {}
        d2 == IF truthy(e.password) THEN dict_set(d1, "password", e.password) ELSE d1
    IN set_keys(d2, e.props)

\* _convert_secret_to_dic: the one-key mapping {path[-1]: fields}, kept as a
\* set of <<key, fields>> pairs
convert_secret_to_dic(path, e) == {<<path[Len(path)], entry_fields(e)>>}

\* what one call did: outcome is "ok" or the exception raised; mem is the tree
\* in memory when the call ended, disk the database file; dirty says that the
\* tree was changed after the last save
Outcome(outcome, changed, secret, mem, disk, saves, dirty, lookups, created, parent) ==
    [outcome |-> outcome, changed |-> changed, secret |-> secret,
     mem |-> mem, disk |-> disk, saves |-> saves, dirty |-> dirty,
     lookups |-> lookups, groups_created |-> created, parent |-> parent]

\* secret_to_dic (secret_reader.py)
secret_to_dic(db, secret_path) ==
    IF path_is_blank(secret_path)
    THEN Outcome("ValueError", FALSE, {}, db, db, 0, FALSE, 0, 0, NoGroup)
    ELSE LET path == split(secret_path)
             entry == find_entries_by_path(db, path)
         IN IF entry = NoEntry
            THEN Outcome("ok", FALSE, {}, db, db, 0, FALSE, 1, 0, NoGroup)
            ELSE Outcome("ok", FALSE, convert_secret_to_dic(path, db.entries[entry]),
                         db, db, 0, FALSE, 1, 0, NoGroup)

\* the loop of group_to_dic over group.entries
RECURSIVE group_secrets(_, _)
group_secrets(db, idx) ==
    IF idx = <<>> THEN <<>>
    ELSE LET entry == find_entries_by_path(db, entry_path(db, Head(idx))) IN
         IF entry = NoEntry THEN group_secrets(db, Tail(idx))
         ELSE <<convert_secret_to_dic(entry_path(db, entry), db.entries[entry])>>
              \o group_secrets(db, Tail(idx))

\* group_to_dic (group_reader.py)
group_to_dic(db, group_path_str) ==
    IF path_is_blank(group_path_str)
    THEN Outcome("ValueError", FALSE, <<>>, db, db, 0, FALSE, 0, 0, NoGroup)
    ELSE LET path0 == split(group_path_str) IN
         IF Len(path0) > 0
         THEN LET path == filter_empty(path0)
                  group == find_groups(db, path)
              IN IF group = NoGroup
                 THEN Outcome("ok", FALSE, <<>>, db, db, 0, FALSE, 1, 0, NoGroup)
                 ELSE Outcome("ok", FALSE, group_secrets(db, group_entries(db, group)),
                              db, db, 0, FALSE,
                              1 + Len(group_entries(db, group)), 0, NoGroup)
         ELSE Outcome("ok", FALSE, <<>>, db, db, 0, FALSE, 0, 0, NoGroup)

\* the group walk with every missing group created under the root group
RECURSIVE walk_groups_under_root(_, _, _, _, _)
walk_groups_under_root(db, path, k, parent_group, created) ==
    IF k > Len(path) THEN [db |-> db, parent |-> parent_group, created |-> created,
                           lookups |-> k - 1]
    ELSE IF path[k] = path[Len(path)] /\ k - 1 = Len(path) - 1
    THEN [db |-> db, parent |-> parent_group, created |-> created, lookups |-> k - 1]
    ELSE LET group == find_groups(db, SubSeq(path, 1, k)) IN
         IF group = NoGroup
         THEN LET db1 == add_group(db, RootGroup, path[k])
              IN walk_groups_under_root(db1, path, k + 1, Len(db1.groups), created + 1)
         ELSE walk_groups_under_root(db, path, k + 1, group, created)

\* the group walk of secret_write: for every item of path but the last, look
\* the group at the prefix up and create it under parent_group when missing
RECURSIVE walk_groups(_, _, _, _, _)
walk_groups(db, path, k, parent_group, created) ==
    IF k > Len(path) THEN [db |-> db, parent |-> parent_group, created |-> created,
                           lookups |-> k - 1]
    ELSE IF path[k] = path[Len(path)] /\ k - 1 = Len(path) - 1
    THEN [db |-> db, parent |-> parent_group, created |-> created, lookups |-> k - 1]
    ELSE LET group == find_groups(db, SubSeq(path, 1, k)) IN
         IF group = NoGroup
         THEN LET dest == IF parent_group = NoGroup THEN RootGroup ELSE parent_group
                  db1 == add_group(db, dest, path[k])
              IN walk_groups(db1, path, k + 1, Len(db1.groups), created + 1)
         ELSE walk_groups(db, path, k + 1, group, created)

\* secret_write, the branch for a path without groups (len(path) == 1)
write_root(db, path, fields, force) ==
    LET entry == find_entries_by_path(db, path)
        title == path[Len(path)]
    IN IF entry # NoEntry /\ ~force
       THEN Outcome("ok", FALSE, convert_secret_to_dic(path, db.entries[entry]),
                    db, db, 0, FALSE, 1, 0, NoGroup)
       ELSE IF entry # NoEntry /\ force
       THEN LET db1 == delete_entry(db, entry)
                new == new_entry(RootGroup, title, fields, ~fields.custom.none)
                db2 == [db1 EXCEPT !.entries = Append(@, new)]
            IN Outcome("ok", TRUE, convert_secret_to_dic(path, new),
                       db2, db2, 1, FALSE, 1, 0, NoGroup)
       ELSE LET new == new_entry(RootGroup, title, fields,
                                 ~fields.custom.none /\ fields.custom.items # <<>>)
                db2 == [db EXCEPT !.entries = Append(@, new)]
            IN Outcome("ok", TRUE, convert_secret_to_dic(path, new),
                       db2, db2, 1, FALSE, 1, 0, NoGroup)

\* the same with the entry added to the root group instead of parent_group
add_to_root_and_save(db0, db, path, parent_group, fields, lookups, created) ==
    IF path = <<>>
    THEN Outcome("IndexError", FALSE, {}, db, db0, 0, db # db0, lookups, created,
                 parent_group)
    ELSE IF parent_group = NoGroup
    THEN Outcome("AttributeError", FALSE, {}, db, db0, 0, db # db0, lookups, created,
                 parent_group)
    ELSE IF entry_exists_in(db, RootGroup, path[1], fields.username)
    THEN Outcome("Exception", FALSE, {}, db, db0, 0, db # db0, lookups, created,
                 parent_group)
    ELSE LET new == new_entry(RootGroup, path[1], fields,
                              ~fields.custom.none /\ fields.custom.items # <<>>)
             db2 == [db EXCEPT !.entries = Append(@, new)]
         IN Outcome("ok", TRUE, convert_secret_to_dic(path, new),
                    db2, db2, 1, FALSE, lookups, created, parent_group)

\* the same without the call of db.save
add_without_save(db0, db, path, parent_group, fields, lookups, created) ==
    IF path = <<>>
    THEN Outcome("IndexError", FALSE, {}, db, db0, 0, db # db0, lookups, created,
                 parent_group)
    ELSE IF parent_group = NoGroup
    THEN Outcome("AttributeError", FALSE, {}, db, db0, 0, db # db0, lookups, created,
                 parent_group)
    ELSE IF entry_exists_in(db, parent_group, path[1], fields.username)
    THEN Outcome("Exception", FALSE, {}, db, db0, 0, db # db0, lookups, created,
                 parent_group)
    ELSE LET new == new_entry(parent_group, path[1], fields,
                              ~fields.custom.none /\ fields.custom.items # <<>>)
             db2 == [db EXCEPT !.entries = Append(@, new)]
         IN Outcome("ok", TRUE, convert_secret_to_dic(path, new),
                    db2, db0, 0, TRUE, lookups, created, parent_group)

\* db.add_entry(destination_group=parent_group, title=path[0], ...) followed by
\* the custom properties and db.save, as both mutating branches of the nested
\* part of secret_write do; db0 is the database file, db the tree in memory.
\* path[0] of an empty path raises IndexError; add_entry with
\* destination_group=None cannot append the entry and raises; nothing is
\* saved in either case.
add_and_save(db0, db, path, parent_group, fields, lookups, created) ==
    IF path = <<>>
    THEN Outcome("IndexError", FALSE, {}, db, db0, 0, db # db0, lookups, created,
                 parent_group)
    ELSE IF parent_group = NoGroup
    THEN Outcome("AttributeError", FALSE, {}, db, db0, 0, db # db0, lookups, created,
                 parent_group)
    ELSE IF entry_exists_in(db, parent_group, path[1], fields.username)
    THEN Outcome("Exception", FALSE, {}, db, db0, 0, db # db0, lookups, created,
                 parent_group)
    ELSE LET new == new_entry(parent_group, path[1], fields,
                              ~fields.custom.none /\ fields.custom.items # <<>>)
             db2 == [db EXCEPT !.entries = Append(@, new)]
         IN Outcome("ok", TRUE, convert_secret_to_dic(path, new),
                    db2, db2, 1, FALSE, lookups, created, parent_group)

\* secret_write, the part after the filter: group walk, lookup, three branches
write_nested(db, path, fields, force) ==
    LET w == walk_groups(db, path, 1, NoGroup, 0)
        entry == find_entries_by_path(w.db, path)
        lookups == w.lookups + 1
    IN IF entry # NoEntry /\ ~force
       THEN Outcome("ok", FALSE, convert_secret_to_dic(path, w.db.entries[entry]),
                    w.db, db, 0, w.db # db, lookups, w.created, w.parent)
       ELSE IF entry # NoEntry /\ force
       THEN add_and_save(db, delete_entry(w.db, entry), path, w.parent, fields,
                         lookups, w.created)
       ELSE add_and_save(db, w.db, path, w.parent, fields, lookups, w.created)

\* secret_write (secret_writer.py)
secret_write(db, secret_path, fields, force) ==
    IF path_is_blank(secret_path)
    THEN Outcome("ValueError", FALSE, {}, db, db, 0, FALSE, 0, 0, NoGroup)
    ELSE LET path == split(secret_path) IN
         IF Len(path) > 1 THEN write_nested(db, filter_empty(path), fields, force)
         ELSE IF Len(path) = 1 THEN write_root(db, path, fields, force)
         ELSE Outcome("ok", FALSE, {}, db, db, 0, FALSE, 0, 0, NoGroup)

\* ------------------------------------------------------------ inputs
\* the secret_path / group_path arguments the module runs are given
BlankPaths == {NonePath, <<>>, <<" ", " ">>}

SlashOnlyPaths == {<<"/">>}

SegmentPaths ==
    { <<"a">>, <<"/", "a">>, <<"a", "/">>,
      <<"a", "/", "b">>, <<"/", "a", "/", "b">>, <<"a", "/", "/", "b">>,
      <<"a", "/", "b", "/">>,
      <<"a", "/", "b", "/", "a">>, <<"/", "a", "/", "b", "/", "b">> }

PathInputs == BlankPaths \cup SlashOnlyPaths \cup SegmentPaths

\* the secret_value arguments: username, password, url, custom_properties
\* (custom.none: no custom_properties given; items: the dict, in order)
NoCustom == [none |-> TRUE, items |-> <<>>]

FieldInputs ==
    { [username |-> "u", password |-> "p", url |-> None, custom |-> NoCustom],
      [username |-> "v", password |-> None, url |-> "h",
       custom |-> [none |-> FALSE, items |-> << <<"k", 7>> >>]] }

NoFields == [username |-> None, password |-> None, url |-> None, custom |-> NoCustom]

\* the database files a behaviour starts from: a new database, and one with
\*   /a (entry, with a custom property)      /a/b (entry)   /a/a (entry)
\*   /a/b/b (entry in the group /a/b)
EmptyStore == [groups |-> <<>>, entries |-> <<>>]

SeedStore ==
    [groups |-> << [name |-> <<"a">>, parent |-> RootGroup],
                   [name |-> <<"b">>, parent |-> 1] >>,
     entries |-> << [title |-> <<"a">>, group |-> RootGroup, username |-> "w",
                     password |-> "x", url |-> None, props |-> {<<"k", "1">>}],
                    [title |-> <<"b">>, group |-> 1, username |-> "w",
                     password |-> None, url |-> None,
                     props |-> {<<"k", "1">>, <<"j", "2">>}],
                    [title |-> <<"a">>, group |-> 1, username |-> "u",
                     password |-> "x", url |-> None, props |-> {}],
                    [title |-> <<"b">>, group |-> 2, username |-> "w",
                     password |-> "y", url |-> None, props |-> {}] >>]

InitialStores == {EmptyStore, SeedStore}

\* ------------------------------------------------------- module runs
\* one run of a module: the database file is opened, the function is called,
\* and the file is what the call saved (unchanged when it saved nothing)
Run(op, path, fields, force, r) ==
    /\ Len(log) < MaxOps
    /\ store' = r.disk
    /\ log' = Append(log, [op |-> op, path |-> path, fields |-> fields,
                           force |-> force, before |-> store, r |-> r])

ReadSecret ==
    \E p \in PathInputs :
        Run("read_secret", p, NoFields, FALSE, secret_to_dic(store, p))

ReadGroup ==
    \E p \in PathInputs :
        Run("read_group", p, NoFields, FALSE, group_to_dic(store, p))

WriteSecret ==
    \E p \in PathInputs, f \in FieldInputs, force \in BOOLEAN :
        Run("write_secret", p, f, force, secret_write(store, p, f, force))

Init ==
    /\ store \in InitialStores
    /\ log = <<>>

Next == ReadSecret \/ ReadGroup \/ WriteSecret

Spec == Init /\ [][Next]_vars

\* the runs so far
Runs == 1..Len(log)

TypeOK ==
    /\ Len(log) <= MaxOps
    /\ \A i \in Runs : log[i].op \in {"read_secret", "read_group", "write_secret"}

\* ------------------------------------------------------------ claims
\* the path a path string denotes: its non-empty slash-separated segments
Segments(raw) == filter_empty(split(raw))

Last(seq) == seq[Len(seq)]

IsWrite(i) == log[i].op = "write_secret"

\* the entry at the path a path string denotes, in the database a run started from
ExistsBefore(i) ==
    find_entries_by_path(log[i].before, Segments(log[i].path)) # NoEntry

\* the fields a record must show for given secret_value arguments
ExpectedFields(f) ==
    (IF truthy(f.username) THEN {<<"username", f.username>>} ELSE {})
    \cup (IF truthy(f.password) THEN {<<"password", f.password>>} ELSE {})
    \cup {<<f.custom.items[n][1], str(f.custom.items[n][2])>> :
              n \in 1..Len(f.custom.items)}

\* C1: a write without force to a nested path with a leading slash at which
\* no entry exists, followed by a read of the same path string on the database
\* it left, gives a record with exactly one key, the last segment, holding
\* the username and password written.
C1Case(i) ==
    /\ IsWrite(i) /\ ~log[i].force
    /\ log[i].path \notin BlankPaths
    /\ Head(log[i].path) = "/"
    /\ Len(Segments(log[i].path)) >= 2
    /\ ~ExistsBefore(i)
    /\ truthy(log[i].fields.username) /\ truthy(log[i].fields.password)

C1_WriteThenRead ==
    \A i \in Runs :
        C1Case(i) =>
            /\ log[i].r.outcome = "ok"
            /\ LET got == secret_to_dic(log[i].r.disk, log[i].path) IN
               /\ got.outcome = "ok"
               /\ Cardinality(got.secret) = 1
               /\ \A x \in got.secret :
                     /\ x[1] = Last(Segments(log[i].path))
                     /\ <<"username", log[i].fields.username>> \in x[2]
                     /\ <<"password", log[i].fields.password>> \in x[2]

\* C2: a write without force to a path at which an entry exists, be it in the
\* database the run started from or written by an earlier successful write to
\* the same path string, returns changed = false, changes nothing in memory or
\* in the file, saves nothing, and a read gives what it gave before.
WrittenEarlier(i) ==
    \E j \in 1..(i - 1) :
        /\ IsWrite(j) /\ log[j].path = log[i].path
        /\ log[j].r.outcome = "ok" /\ log[j].r.changed

NoMutation(i) ==
    /\ log[i].r.mem = log[i].before
    /\ log[i].r.disk = log[i].before
    /\ log[i].r.saves = 0

C2Holds(i) ==
    /\ log[i].r.outcome = "ok"
    /\ ~log[i].r.changed
    /\ NoMutation(i)
    /\ secret_to_dic(log[i].r.disk, log[i].path).secret
         = secret_to_dic(log[i].before, log[i].path).secret

C2_NoClobber ==
    \A i \in Runs :
        ( /\ IsWrite(i) /\ ~log[i].force
          /\ log[i].path \notin BlankPaths
          /\ Segments(log[i].path) # <<>>
          /\ (ExistsBefore(i) \/ WrittenEarlier(i)) )
        => C2Holds(i)

\* the part of C2 that the code keeps: the entry is in the database the run
\* started from
C2_NoClobberStored ==
    \A i \in Runs :
        ( /\ IsWrite(i) /\ ~log[i].force
          /\ log[i].path \notin BlankPaths
          /\ ExistsBefore(i) )
        => C2Holds(i)

\* C3: a write with force to a path at which an entry exists returns
\* changed = true, and a read of the path then gives one record, keyed by the
\* last segment, with exactly the new username, password and custom
\* properties.
C3_ForcedOverwrite ==
    \A i \in Runs :
        ( /\ IsWrite(i) /\ log[i].force
          /\ log[i].path \notin BlankPaths
          /\ ExistsBefore(i) )
        => /\ log[i].r.outcome = "ok"
           /\ log[i].r.changed
           /\ secret_to_dic(log[i].r.disk, log[i].path).secret
                = {<<Last(Segments(log[i].path)), ExpectedFields(log[i].fields)>>}

\* C4: on a nested path the group walk of secret_write, run a second time on
\* the tree the first walk left, creates no group, changes nothing and ends
\* with the parent group of the first walk; no group is created twice; and of
\* two consecutive writes to the same path the second creates no group and
\* ends with the same parent group.
UniqueGroupPaths(db) ==
    \A g, h \in 1..Len(db.groups) :
        group_path(db, g) = group_path(db, h) => g = h

IsNestedWrite(i) ==
    /\ IsWrite(i)
    /\ log[i].path \notin BlankPaths
    /\ Len(Segments(log[i].path)) >= 2

C4_IdempotentWalk ==
    \A i \in Runs :
        IsNestedWrite(i) =>
            LET segs == Segments(log[i].path)
                first == walk_groups(log[i].before, segs, 1, NoGroup, 0)
                second == walk_groups(first.db, segs, 1, NoGroup, 0)
            IN /\ log[i].r.groups_created = first.created
               /\ log[i].r.parent = first.parent
               /\ first.created <= Len(segs) - 1
               /\ UniqueGroupPaths(first.db)
               /\ second.created = 0
               /\ second.db = first.db
               /\ second.parent = first.parent
               /\ group_path(first.db, first.parent) = SubSeq(segs, 1, Len(segs) - 1)
               /\ (i + 1 \in Runs /\ IsNestedWrite(i + 1)
                   /\ Segments(log[i + 1].path) = segs)
                  => /\ log[i + 1].r.groups_created = 0
                     /\ log[i + 1].r.parent = first.parent

\* a path with two intermediate groups is written twice in a row to a
\* database that had neither group
C4_Witness ==
    /\ Len(log) = 2
    /\ IsNestedWrite(1) /\ IsNestedWrite(2)
    /\ Segments(log[1].path) = Segments(log[2].path)
    /\ log[1].r.groups_created = 2
    /\ log[2].r.groups_created = 0
    /\ log[2].r.parent = 2

\* C5: a path that is None, empty or all whitespace makes each of the three
\* functions raise ValueError before any lookup, creation, deletion or save;
\* the tree in memory and the database file are unchanged.
C5_BlankPathRejected ==
    \A i \in Runs :
        log[i].path \in BlankPaths =>
            /\ log[i].r.outcome = "ValueError"
            /\ log[i].r.lookups = 0
            /\ log[i].r.groups_created = 0
            /\ NoMutation(i)
            /\ i = Len(log) => store = log[i].before

\* a whitespace-only path was given to one function and None to another
C5_Witness ==
    /\ Len(log) = 2
    /\ log[1].op = "write_secret" /\ log[1].path = <<" ", " ">>
    /\ log[1].r.outcome = "ValueError"
    /\ log[2].op = "read_group" /\ log[2].path = NonePath
    /\ log[2].r.outcome = "ValueError"
    /\ store \in InitialStores

\* C6: a write without force to "/" + s, s a single segment with no entry s
\* under the root group, succeeds with changed = true, creates an entry titled
\* s under the root group and creates no group.
C6Case(i) ==
    /\ IsWrite(i) /\ ~log[i].force
    /\ log[i].path \notin BlankPaths
    /\ Len(Segments(log[i].path)) = 1
    /\ log[i].path = <<"/">> \o Segments(log[i].path)[1]
    /\ ~ExistsBefore(i)

C6_RootLevelWrite ==
    \A i \in Runs :
        C6Case(i) =>
            /\ log[i].r.outcome = "ok"
            /\ log[i].r.changed
            /\ log[i].r.disk.groups = log[i].before.groups
            /\ \E n \in 1..Len(log[i].r.disk.entries) :
                  /\ log[i].r.disk.entries[n].title = Segments(log[i].path)[1]
                  /\ log[i].r.disk.entries[n].group = RootGroup

\* C7: read-group on a path with at least one segment: when a group is at
\* the path and its direct entries have distinct titles, the result has one
\* record per direct entry, in document order, keyed by the title of that
\* entry and holding its fields, and no record of an entry of a subgroup;
\* when no group is at the path the function returns the empty list.
DirectEntries(db, g) == {n \in 1..Len(db.entries) : db.entries[n].group = g}

\* the k-th direct entry in document order
KthOf(set, k) == CHOOSE n \in set : Cardinality({m \in set : m < n}) = k - 1

DistinctTitles(db, set) ==
    \A m, n \in set : db.entries[m].title = db.entries[n].title => m = n

IsGroupRead(i) ==
    /\ log[i].op = "read_group"
    /\ log[i].path \notin BlankPaths
    /\ Segments(log[i].path) # <<>>

C7_GroupBulkRead ==
    \A i \in Runs :
        IsGroupRead(i) =>
            LET db == log[i].before
                g == find_groups(db, Segments(log[i].path))
                direct == DirectEntries(db, g)
            IN /\ log[i].r.outcome = "ok"
               /\ g = NoGroup => log[i].r.secret = <<>>
               /\ (g # NoGroup /\ DistinctTitles(db, direct)) =>
                     /\ Len(log[i].r.secret) = Cardinality(direct)
                     /\ \A k \in 1..Cardinality(direct) :
                           log[i].r.secret[k] =
                              {<<db.entries[KthOf(direct, k)].title,
                                 entry_fields(db.entries[KthOf(direct, k)])>>}

\* the group /a of the seeded database, which has two entries and a subgroup
\* with an entry, was read, and so was a path with no group
C7_Witness ==
    /\ Len(log) = 2
    /\ IsGroupRead(1) /\ Segments(log[1].path) = << <<"a">> >>
    /\ log[1].before = SeedStore
    /\ Len(log[1].r.secret) = 2
    /\ IsGroupRead(2) /\ find_groups(log[2].before, Segments(log[2].path)) = NoGroup
    /\ log[2].r.secret = <<>>

\* C8: a call of secret_write has saved if and only if it returned
\* changed = true; a call that returns changed = true has saved once, after
\* its last change of the tree, so that the file is the tree in memory;
\* a call that returns changed = false has neither changed the tree nor
\* saved; a call that raises leaves the file as it was.
C8_PersistDiscipline ==
    \A i \in Runs :
        IsWrite(i) =>
            /\ log[i].r.saves >= 1 <=> (log[i].r.outcome = "ok" /\ log[i].r.changed)
            /\ (log[i].r.outcome = "ok" /\ log[i].r.changed) =>
                  /\ log[i].r.saves = 1
                  /\ ~log[i].r.dirty
                  /\ log[i].r.disk = log[i].r.mem
            /\ (log[i].r.outcome = "ok" /\ ~log[i].r.changed) =>
                  /\ ExistsBefore(i) /\ ~log[i].force
                  /\ NoMutation(i)
                  /\ ~log[i].r.dirty
            /\ log[i].r.outcome # "ok" => log[i].r.disk = log[i].before
            /\ (ExistsBefore(i) /\ ~log[i].force /\ log[i].path \notin BlankPaths)
                  => (log[i].r.outcome = "ok" /\ ~log[i].r.changed)

\* a nested entry was deleted and recreated by one call, which saved, and a
\* second call found an entry at its path and did nothing
C8_Witness ==
    /\ Len(log) = 2
    /\ IsNestedWrite(1) /\ log[1].force /\ ExistsBefore(1)
    /\ log[1].r.changed /\ log[1].r.saves = 1
    /\ log[1].r.disk # log[1].before
    /\ IsWrite(2) /\ ~log[2].force /\ ExistsBefore(2)
    /\ log[2].r.outcome = "ok" /\ ~log[2].r.changed /\ log[2].r.saves = 0

\* C9: a path string with at least one non-empty segment gives, in each of
\* the three functions, the result that every other path string with the same
\* non-empty segments gives on the same database.
Call(op, db, p, f, force) ==
    IF op = "read_secret" THEN secret_to_dic(db, p)
    ELSE IF op = "read_group" THEN group_to_dic(db, p)
    ELSE secret_write(db, p, f, force)

C9_PathNormalization ==
    \A i \in Runs :
        (log[i].path \notin BlankPaths /\ Segments(log[i].path) # <<>>) =>
            \A p \in PathInputs \ BlankPaths :
                Segments(p) = Segments(log[i].path) =>
                    LET other == Call(log[i].op, log[i].before, p,
                                      log[i].fields, log[i].force)
                    IN /\ other.outcome = log[i].r.outcome
                       /\ other.changed = log[i].r.changed
                       /\ other.secret = log[i].r.secret
                       /\ other.disk = log[i].r.disk

\* C10: a path string of slashes only makes each of the three functions fail
\* with the invalid-path error, with no lookup, no result and no change.
C10_SlashOnlyRejected ==
    \A i \in Runs :
        (log[i].path \notin BlankPaths /\ Segments(log[i].path) = <<>>) =>
            /\ log[i].r.outcome = "ValueError"
            /\ log[i].r.lookups = 0
            /\ NoMutation(i)

\* C11: after a write to a nested path of n segments has created an entry,
\* a group is at every prefix of 1..n-1 segments, named by the last segment
\* of the prefix, the first a child of the root group and each later one a
\* child of the group at the prefix before it; the entry just added is a
\* child of the group at the first n-1 segments; and after any run every
\* group of the database the run started from is still there, in memory and
\* in the file, with its name and its parent, each run starting from the file
\* the run before it left.
GroupsKept(old, new) ==
    /\ Len(new.groups) >= Len(old.groups)
    /\ \A g \in 1..Len(old.groups) : new.groups[g] = old.groups[g]

CreatedEntry(i) ==
    /\ IsNestedWrite(i)
    /\ log[i].r.outcome = "ok" /\ log[i].r.changed

C11_MaterializationResult ==
    \A i \in Runs :
        /\ GroupsKept(log[i].before, log[i].r.mem)
        /\ GroupsKept(log[i].before, log[i].r.disk)
        /\ i + 1 \in Runs => log[i + 1].before = log[i].r.disk
        /\ i = Len(log) => store = log[i].r.disk
        /\ CreatedEntry(i) =>
              LET segs == Segments(log[i].path)
                  n == Len(segs)
                  db == log[i].r.disk
                  at(k) == find_groups(db, SubSeq(segs, 1, k))
              IN /\ \A k \in 1..(n - 1) :
                        /\ at(k) # NoGroup
                        /\ db.groups[at(k)].name = segs[k]
                        /\ db.groups[at(k)].parent = at(k - 1)
                 /\ db.entries # <<>>
                 /\ db.entries[Len(db.entries)].group = at(n - 1)
                 /\ (Len(db.entries) > Len(log[i].before.entries) \/ log[i].force)

\* a write to a path of three segments created both groups and the entry in
\* a new database, and a second nested write added an entry to the database
\* that had these groups
C11_Witness ==
    /\ Len(log) = 2
    /\ CreatedEntry(1) /\ Len(Segments(log[1].path)) = 3
    /\ log[1].before = EmptyStore
    /\ log[1].r.groups_created = 2
    /\ log[1].r.disk.groups[2].parent = 1
    /\ log[1].r.disk.entries[1].group = 2
    /\ CreatedEntry(2)
    /\ Len(log[2].r.disk.entries) = 2
    /\ Len(log[2].r.disk.groups) = 2

====
